---- MODULE Spec2Model ----
(***************************************************************************)
(* Model of two1/commands/login.py: the wallet based login flow (_login),  *)
(* the session config writer (save_config), the password update flow      *)
(* (_set_password, get_machine_auth) and the account creation bootstrap    *)
(* (create_wallet_and_account).                                            *)
(*                                                                         *)
(* One command runs at a time (the code is single threaded).  pc is the    *)
(* position of the running command; every action is one statement block   *)
(* of the source.  save_config is interpreted one Config call at a time so *)
(* that a process that dies between two Config calls is a state of the     *)
(* model.  disk is the backing store of Config and outlives the commands.  *)
(***************************************************************************)
EXTENDS Integers, Sequences, FiniteSets, TLC

(* ------------------------------ bounds -------------------------------- *)
MaxAccounts == 2      \* longest AccountSet account_info returns
MaxPrompts == 2       \* numeric-selection prompts answered in one command
MaxBindCalls == 2     \* consecutive save_config calls on one Config object

(* ------------------------------ values -------------------------------- *)
NONE == "<None>"      \* Python None
ABSENT == "<absent>"  \* attribute / key that does not exist
Names == {"alice", "bob", "carol"}
UserArgs == Names \cup {"Bob", NONE}
OtherVals == {0, 1}   \* values of a persisted key the login never sets

\* compressed_bytes of two secp256k1 public keys (33 bytes each)
KeyA == <<2, 121, 190, 102, 126, 249, 220, 187, 172, 85, 160, 98, 149, 206,
          135, 11, 7, 2, 155, 252, 219, 45, 206, 40, 217, 89, 242, 129, 91,
          22, 248, 23, 152>>
KeyB == <<3, 198, 4, 127, 148, 65, 237, 125, 109, 48, 69, 64, 110, 149, 192,
          124, 216, 92, 119, 142, 75, 140, 239, 60, 167, 171, 172, 9, 185,
          92, 112, 158, 229>>
Keys == {KeyA, KeyB}
WalletKey == KeyA     \* the key of the wallet at DEFAULT_WALLET_PATH
CachedKeys == {KeyB}  \* keys a Config object can carry as machine_auth
NoKey == <<>>         \* machine_auth is None, or no such attribute

(* --------------------------- base64.b64encode -------------------------- *)
B64Alphabet ==
  <<"A","B","C","D","E","F","G","H","I","J","K","L","M","N","O","P",
    "Q","R","S","T","U","V","W","X","Y","Z","a","b","c","d","e","f",
    "g","h","i","j","k","l","m","n","o","p","q","r","s","t","u","v",
    "w","x","y","z","0","1","2","3","4","5","6","7","8","9","+","/">>

B64Char(n) == B64Alphabet[n + 1]

\* the 4 characters of one group of 1, 2 or 3 bytes
B64Group(g) ==
  LET b1 == g[1]
      b2 == IF Len(g) >= 2 THEN g[2] ELSE 0
      b3 == IF Len(g) >= 3 THEN g[3] ELSE 0
      c1 == b1 \div 4
      c2 == (b1 % 4) * 16 + (b2 \div 16)
      c3 == (b2 % 16) * 4 + (b3 \div 64)
      c4 == b3 % 64
  IN  B64Char(c1) \o B64Char(c2)
        \o (IF Len(g) >= 2 THEN B64Char(c3) ELSE "=")
        \o (IF Len(g) >= 3 THEN B64Char(c4) ELSE "=")

RECURSIVE b64encode(_)
b64encode(bytes) ==
  IF Len(bytes) = 0 THEN ""
  ELSE IF Len(bytes) <= 3 THEN B64Group(bytes)
  ELSE B64Group(SubSeq(bytes, 1, 3)) \o b64encode(SubSeq(bytes, 4, Len(bytes)))

\* fault: the key of the wallet is encoded, whatever machine_auth is
PubKeyB64OfWallet == [k \in Keys |-> b64encode(WalletKey)]
\* memoised for the keys of the model
PubKeyB64 == [k \in Keys |-> b64encode(k)]

(* ------------------------------- Config -------------------------------- *)
\* a view of the Config keys: in memory (mem) or in the backing store (disk)
ConfigLoad(m, d) == d
ConfigUpdateKey(m, k, v) == [m EXCEPT ![k] = v]
ConfigSave(m, d) == m

\* fault: the attribute test always succeeds
HasAttrAlways(m, k) == TRUE
\* hasattr(config, "username") (line 66); line 110 reads the attribute
HasAttr(m, k) == m[k] # ABSENT

\* hasattr(config, "machine_auth") (lines 82, 114)
HasMachineAuth(ma) == ma # NoKey

\* fault: the wallet file test always succeeds
CheckWalletFileAlways(w) == TRUE
\* Two1Wallet.check_wallet_file(wallet_path) (lines 87, 119)
CheckWalletFile(w) == w # NoKey

(* --------------------------- pieces of _login -------------------------- *)
\* line 110: truthiness of config.username
Truthy(v) == v # NONE /\ v # ""

\* faults: `<` for `<=` in the lower bound; `>=` for `>` in the upper bound
InRangeFromZero(i, n) == ~(i < 0 \/ i > n)
InRangeUpperOpen(i, n) == ~(i <= 0 \/ i >= n)
\* lines 148/150: the loop and the rejection test, negated
InRange(i, n) == ~(i <= 0 \/ i > n)

\* fault: the lower bound is not tested
RejectionShownUpperOnly(i, n) == i > n
\* line 150: the test that prints login_prompt_invalid_user
RejectionShown(i, n) == i <= 0 \/ i > n

\* Python list indexing: 0-based, negative indices count from the end
PyIndex(names, k) ==
  IF 0 <= k /\ k < Len(names) THEN names[k + 1]
  ELSE IF k < 0 /\ -k <= Len(names) THEN names[Len(names) + k + 1]
  ELSE "<IndexError>"

\* fault: the index is not shifted to 0-based
SelectedUsernameOffByOne(names, i) == PyIndex(names, i)
\* line 153: usernames[username_index - 1]
SelectedUsername(names, i) == PyIndex(names, i - 1)

\* fault: `<` for `==`
NoUsernamesNever(names) == Len(names) < 0
\* line 133: len(usernames) == 0
NoUsernames(names) == Len(names) = 0

\* faults: only the first name is compared; the comparison ignores case;
\* the membership test is dropped
UserInUsernamesFirstOnly(u, names) == Len(names) >= 1 /\ names[1] = u
FoldCase(u) == IF u = "Bob" THEN "bob" ELSE u
UserInUsernamesFoldCase(u, names) ==
  \E j \in 1..Len(names) : FoldCase(names[j]) = FoldCase(u)
UserInUsernamesAny(u, names) == TRUE
\* line 156: user in usernames
UserInUsernames(u, names) == \E j \in 1..Len(names) : names[j] = u

\* faults: a save after each update_key; no load and the save one line early;
\* no load
save_config_ops_SaveEach ==
  <<"load", "update_username", "save", "update_pubkey", "save">>
save_config_ops_NoLoadEarlySave == <<"update_username", "save", "update_pubkey">>
save_config_ops_NoLoad == <<"update_username", "update_pubkey", "save">>
\* lines 176-179: the Config calls of save_config, in order
save_config_ops == <<"load", "update_username", "update_pubkey", "save">>

\* lines 188-196: what create_wallet_and_account does with the outcome of
\* check_setup_twentyone_account
CreateOutcomes ==
  {"ok", "DataProviderUnavailableError", "DataProviderError",
   "UnloggedException"}
\* fault: both provider errors get the connection message
create_wallet_and_account_OneMessage(r) ==
  CASE r = "ok" -> "return"
    [] r = "DataProviderUnavailableError" -> "TwoOneError:connection_cli"
    [] r = "DataProviderError" -> "TwoOneError:connection_cli"
    [] r = "UnloggedException" -> "exit:1"
create_wallet_and_account(r) ==
  CASE r = "ok" -> "return"
    [] r = "DataProviderUnavailableError" -> "TwoOneError:connection_cli"
    [] r = "DataProviderError" -> "TwoOneError:server_err"
    [] r = "UnloggedException" -> "exit:1"

\* fault: an exception of account_info is reported and swallowed
LoginPropagatesSwallowed(e) == "return"
\* lines 127-132: nothing in _login catches what account_info raises
LoginPropagates(e) == e


\* lines 88-89: get_machine_auth goes on (returning None) when
\* create_wallet_and_account returns, and so does _set_password at line 72
GetMachineAuthProceeds(o) == o = "return"

\* fault: Abort is not caught
SetPasswordExceptNothing(o) == o
\* lines 77-78: _set_password swallows click.exceptions.Abort only
SetPasswordExcept(o) == IF o = "Abort" THEN "return" ELSE o

\* check_setup_twentyone_account (two1.lib.server.login): creates the wallet
\* file when it succeeds and there was none; it is given a Config of its own
check_setup_twentyone_account(r, w) ==
  IF r = "ok" /\ w = NoKey THEN WalletKey ELSE w

\* AccountSets the service can report: distinct names, in any order
RECURSIVE SeqsUpTo(_)
SeqsUpTo(n) ==
  IF n = 0 THEN {<<>>}
  ELSE LET S == SeqsUpTo(n - 1)
       IN  S \cup {Append(s, x) : s \in {t \in S : Len(t) = n - 1}, x \in Names}
Distinct(s) == \A i, j \in 1..Len(s) : i # j => s[i] # s[j]
AccountSets == {s \in SeqsUpTo(MaxAccounts) : Distinct(s)}

ProviderErrors == {"DataProviderUnavailableError", "DataProviderError"}

(* ------------------------------- state --------------------------------- *)
VARIABLES
  pc,            \* position of the running command
  flow,          \* which function was called: "_login", "_set_password", ...
  user,          \* the `user` argument
  args,          \* options of the login command
  mem,           \* in-memory keys of the Config object of the command
  cfgMachineAuth,\* config.machine_auth, NoKey when there is no such attribute
  disk,          \* backing store of Config
  walletKey,     \* key of the wallet file, NoKey when there is no file
  machine_auth,  \* local machine_auth
  usernames,     \* local usernames
  username,      \* local username
  b64,           \* local machine_auth_pubkey_b64 of save_config
  ip,            \* next Config call of save_config
  calls,         \* save_config calls made on this Config object
  inputs,        \* integers click.prompt returned, in order
  trace,         \* calls and messages of the command, in order
  outcome,       \* how the command ended
  disk0,         \* backing store when the command started
  wallet0,       \* walletKey when the command started
  disk1,         \* backing store when the first save_config call returned
  mem0,          \* in-memory keys of the Config object when the command started
  result         \* what the last account_info / check_setup_twentyone_account did

vars == <<pc, flow, user, args, mem, cfgMachineAuth, disk, walletKey, machine_auth,
          usernames, username, b64, ip, calls, inputs, trace, outcome, disk0,
          wallet0, disk1, mem0, result>>

locals == <<machine_auth, usernames, username, b64, ip, calls, inputs>>

NoArgs == [accounts |-> FALSE, switchuser |-> NONE, setpassword |-> FALSE,
           username |-> NONE, password |-> NONE]
LoginArgs == [accounts : BOOLEAN, switchuser : {NONE, "alice"},
              setpassword : BOOLEAN, username : {NONE, "alice"},
              password : {NONE, "secret"}]

EmptyStore == [username |-> ABSENT, mining_auth_pubkey |-> ABSENT, other |-> 0]

Init ==
  /\ pc = "idle"
  /\ flow = "none"
  /\ user = NONE
  /\ args = NoArgs
  /\ disk \in {[EmptyStore EXCEPT !.username = u] : u \in {ABSENT, NONE}}
  /\ mem = disk
  /\ cfgMachineAuth = NoKey
  /\ walletKey \in {NoKey, WalletKey}
  /\ machine_auth = NoKey
  /\ usernames = <<>>
  /\ username = NONE
  /\ b64 = ""
  /\ ip = 1
  /\ calls = 0
  /\ inputs = <<>>
  /\ trace = <<>>
  /\ outcome = "none"
  /\ disk0 = disk
  /\ wallet0 = walletKey
  /\ disk1 = disk
  /\ mem0 = disk
  /\ result = "none"

Emit(es) == trace' = trace \o es

End(o) == pc' = "done" /\ outcome' = o

\* the Config object a command receives: the store as loaded when the
\* process started, possibly with a key changed in memory since
ConfigViews == {[disk EXCEPT !.other = o] : o \in OtherVals}

Begin(f, u, m, ma) ==
  /\ pc = "idle"
  /\ flow' = f
  /\ user' = u
  /\ mem' = m
  /\ cfgMachineAuth' = ma
  /\ disk0' = disk
  /\ wallet0' = walletKey
  /\ disk1' = disk
  /\ mem0' = m
  /\ result' = "none"
  /\ trace' = <<>>
  /\ outcome' = "running"
  /\ usernames' = <<>>
  /\ b64' = ""
  /\ ip' = 1
  /\ calls' = 0
  /\ inputs' = <<>>
  /\ UNCHANGED <<disk, walletKey>>

(* ------------------------------- _login -------------------------------- *)
\* a call _login(config, user)
CallLogin ==
  \E u \in UserArgs, m \in ConfigViews, ma \in CachedKeys \cup {NoKey} :
    /\ Begin("_login", u, m, ma)
    /\ machine_auth' = NoKey
    /\ username' = NONE
    /\ args' = NoArgs
    /\ pc' = "login_greet"

\* lines 110-111
LoginGreet ==
  /\ pc = "login_greet"
  /\ IF ~HasAttr(mem, "username")
       THEN End("AttributeError") /\ UNCHANGED trace
       ELSE /\ pc' = "login_machine_auth"
            /\ IF Truthy(mem.username)
                 THEN Emit(<<"msg:currently_logged_in">>)
                 ELSE UNCHANGED trace
            /\ UNCHANGED outcome
  /\ UNCHANGED <<flow, user, args, mem, cfgMachineAuth, disk, walletKey, locals,
                 disk0, wallet0, disk1,
                 mem0, result>>

\* lines 114-125
LoginMachineAuth ==
  /\ pc = "login_machine_auth"
  /\ IF HasMachineAuth(cfgMachineAuth)
       THEN /\ machine_auth' = cfgMachineAuth
            /\ pc' = "login_account_info"
            /\ UNCHANGED <<trace, outcome, walletKey, result>>
       ELSE IF ~CheckWalletFile(walletKey)
         THEN \E r \in CreateOutcomes :
                /\ Emit(<<"check_wallet_file:absent", "create">>)
                /\ result' = r
                /\ End(create_wallet_and_account(r))
                /\ walletKey' = check_setup_twentyone_account(r, walletKey)
                /\ UNCHANGED machine_auth
         ELSE /\ Emit(<<"check_wallet_file:present">>)
              /\ machine_auth' = walletKey
              /\ pc' = "login_account_info"
              /\ UNCHANGED <<outcome, walletKey, result>>
  /\ UNCHANGED <<flow, user, args, mem, cfgMachineAuth, disk, usernames, username,
                 b64, ip, calls, inputs, disk0, wallet0, disk1, mem0>>

\* lines 127-135 and 138-146 / 154-160
LoginAccountInfo ==
  /\ pc = "login_account_info"
  /\ \/ \E e \in ProviderErrors :
          /\ Emit(<<"account_info", "account_info:raised">>)
          /\ result' = e
          /\ End(LoginPropagates(e))
          /\ UNCHANGED <<usernames, username, walletKey>>
     \/ \E names \in AccountSets :
          /\ usernames' = names
          /\ IF NoUsernames(names)
               THEN \E r \in CreateOutcomes :
                      /\ Emit(<<"account_info", "create">>)
                      /\ result' = r
                      /\ End(create_wallet_and_account(r))
                      /\ walletKey' = check_setup_twentyone_account(r, walletKey)
                      /\ UNCHANGED username
               ELSE IF user = NONE
                 THEN /\ Emit(<<"account_info", "msg:usernames_title",
                                "msg:list">>)
                      /\ result' = "ok"
                      /\ pc' = "login_prompt"
                      /\ UNCHANGED <<username, outcome, walletKey>>
                 ELSE IF UserInUsernames(user, names)
                   THEN /\ Emit(<<"account_info">>)
                        /\ result' = "ok"
                        /\ username' = user
                        /\ pc' = "save_config"
                        /\ UNCHANGED <<outcome, walletKey>>
                   ELSE /\ Emit(<<"account_info", "msg:does_not_exist">>)
                        /\ result' = "ok"
                        /\ End("return")
                        /\ UNCHANGED <<username, walletKey>>
  /\ UNCHANGED <<flow, user, args, mem, cfgMachineAuth, disk, machine_auth, b64, ip,
                 calls, inputs, disk0, wallet0, disk1, mem0>>

\* lines 148-153: one turn of the selection loop; line 150 repeats the test
\* of line 148 to decide on the rejection message
LoginPrompt ==
  /\ pc = "login_prompt"
  /\ \/ /\ Emit(<<"prompt">>)
        /\ End("Abort")
        /\ UNCHANGED <<inputs, username>>
     \/ \E i \in -1..(MaxAccounts + 1) :
          /\ inputs' = Append(inputs, i)
          /\ Emit(<<"prompt">> \o (IF RejectionShown(i, Len(usernames))
                                     THEN <<"msg:invalid_user">> ELSE <<>>))
          /\ IF InRange(i, Len(usernames))
               THEN /\ username' = SelectedUsername(usernames, i)
                    /\ pc' = "save_config"
               ELSE /\ Len(inputs) + 1 < MaxPrompts
                    /\ pc' = "login_prompt"
                    /\ UNCHANGED username
          /\ UNCHANGED outcome
  /\ UNCHANGED <<flow, user, args, mem, cfgMachineAuth, disk, walletKey,
                 machine_auth, usernames, b64, ip, calls, disk0, wallet0, disk1,
                 mem0, result>>

(* ----------------------------- save_config ----------------------------- *)
\* lines 171-175; None has no public_key
SaveConfigEnter ==
  /\ pc = "save_config"
  /\ calls' = calls + 1
  /\ ip' = 1
  /\ IF machine_auth = NoKey
       THEN /\ Emit(<<"save_config">>)
            /\ End("AttributeError")
            /\ UNCHANGED b64
       ELSE /\ b64' = PubKeyB64[machine_auth]
            /\ Emit(<<"save_config", "msg:logging_in">>)
            /\ pc' = "save_config_ops"
            /\ UNCHANGED outcome
  /\ UNCHANGED <<flow, user, args, mem, cfgMachineAuth, disk, walletKey,
                 machine_auth, usernames, username, inputs, disk0, wallet0, disk1,
                 mem0, result>>

\* lines 176-179: the next Config call
SaveConfigStep ==
  /\ pc = "save_config_ops"
  /\ ip <= Len(save_config_ops)
  /\ LET op == save_config_ops[ip] IN
       /\ CASE op = "load" ->
                 /\ mem' = ConfigLoad(mem, disk)
                 /\ Emit(<<"load">>)
                 /\ UNCHANGED disk
            [] op = "update_username" ->
                 /\ mem' = ConfigUpdateKey(mem, "username", username)
                 /\ Emit(<<"update_key:username">>)
                 /\ UNCHANGED disk
            [] op = "update_pubkey" ->
                 /\ mem' = ConfigUpdateKey(mem, "mining_auth_pubkey", b64)
                 /\ Emit(<<"update_key:mining_auth_pubkey">>)
                 /\ UNCHANGED disk
            [] op = "save" ->
                 /\ disk' = ConfigSave(mem, disk)
                 /\ Emit(<<"save">>)
                 /\ UNCHANGED mem
  /\ ip' = ip + 1
  /\ UNCHANGED <<pc, flow, user, args, cfgMachineAuth, walletKey, machine_auth,
                 usernames, username, b64, calls, inputs, outcome, disk0, wallet0, disk1,
                 mem0, result>>

\* save_config returns, and so does its caller (line 163 is the last of _login)
SaveConfigReturn ==
  /\ pc = "save_config_ops"
  /\ ip > Len(save_config_ops)
  /\ End("return")
  /\ disk1' = IF calls = 1 THEN disk ELSE disk1
  /\ UNCHANGED <<flow, user, args, mem, cfgMachineAuth, disk, walletKey, locals,
                 trace, disk0, wallet0, mem0, result>>

\* the process dies before the next Config call of save_config
Interrupt ==
  /\ pc = "save_config_ops"
  /\ ip <= Len(save_config_ops)
  /\ End("interrupted")
  /\ UNCHANGED <<flow, user, args, mem, cfgMachineAuth, disk, walletKey, locals,
                 trace, disk0, wallet0, disk1,
                 mem0, result>>

(* ---------------------- _set_password, get_machine_auth ---------------- *)
\* a call _set_password(config, user)
CallSetPassword ==
  \E u \in {NONE, "alice"}, m \in ConfigViews, ma \in CachedKeys \cup {NoKey} :
    /\ Begin("_set_password", u, m, ma)
    /\ machine_auth' = NoKey
    /\ username' = NONE
    /\ args' = NoArgs
    /\ pc' = "set_password"

\* lines 66-68
SetPasswordCheck ==
  /\ pc = "set_password"
  /\ IF ~HasAttr(mem, "username")
       THEN Emit(<<"msg:no_account_found">>) /\ End("return")
       ELSE pc' = "set_password_get_password" /\ UNCHANGED <<trace, outcome>>
  /\ UNCHANGED <<flow, user, args, mem, cfgMachineAuth, disk, walletKey,
                 locals, disk0, wallet0, disk1,
                 mem0, result>>

\* line 70, and lines 77-78 when the prompt is cancelled
SetPasswordGetPassword ==
  /\ pc = "set_password_get_password"
  /\ Emit(<<"get_password">>)
  /\ \/ pc' = "get_machine_auth" /\ UNCHANGED outcome
     \/ End(SetPasswordExcept("Abort"))
  /\ UNCHANGED <<flow, user, args, mem, cfgMachineAuth, disk, walletKey,
                 locals, disk0, wallet0, disk1,
                 mem0, result>>

\* line 71 with lines 81-95
GetMachineAuth ==
  /\ pc = "get_machine_auth"
  /\ IF HasMachineAuth(cfgMachineAuth)
       THEN /\ machine_auth' = cfgMachineAuth
            /\ pc' = "set_password_update"
            /\ UNCHANGED <<trace, outcome, walletKey, result>>
       ELSE IF ~CheckWalletFile(walletKey)
         THEN \E r \in CreateOutcomes :
                /\ Emit(<<"check_wallet_file:absent", "create">>)
                /\ result' = r
                /\ walletKey' = check_setup_twentyone_account(r, walletKey)
                /\ machine_auth' = NoKey
                /\ LET o == create_wallet_and_account(r) IN
                     IF GetMachineAuthProceeds(o)
                       THEN pc' = "set_password_update" /\ UNCHANGED outcome
                       ELSE End(SetPasswordExcept(o))
         ELSE /\ Emit(<<"check_wallet_file:present">>)
              /\ machine_auth' = walletKey
              /\ pc' = "set_password_update"
              /\ UNCHANGED <<outcome, walletKey, result>>
  /\ UNCHANGED <<flow, user, args, mem, cfgMachineAuth, disk, usernames,
                 username, b64, ip, calls, inputs, disk0, wallet0, disk1, mem0>>

\* lines 72-75
SetPasswordUpdate ==
  /\ pc = "set_password_update"
  /\ Emit(<<"update_password">>)
  /\ \E r \in {"return"} \cup ProviderErrors : End(SetPasswordExcept(r))
  /\ UNCHANGED <<flow, user, args, mem, cfgMachineAuth, disk, walletKey,
                 locals, disk0, wallet0, disk1,
                 mem0, result>>

(* --------------------- save_config called on its own ------------------- *)
\* a call save_config(config, machine_auth, username)
CallSaveConfig ==
  \E un \in Names, k \in Keys, m \in ConfigViews :
    /\ Begin("save_config", NONE, m, NoKey)
    /\ args' = NoArgs
    /\ machine_auth' = k
    /\ username' = un
    /\ pc' = "save_config"

\* the same call again, on the same Config object
CallSaveConfigAgain ==
  /\ pc = "done"
  /\ flow = "save_config"
  /\ outcome = "return"
  /\ calls < MaxBindCalls
  /\ pc' = "save_config"
  /\ outcome' = "running"
  /\ UNCHANGED <<flow, user, args, mem, cfgMachineAuth, disk, walletKey,
                 locals, trace, disk0, wallet0, disk1,
                 mem0, result>>

(* ---------------------------- login command ---------------------------- *)
\* the login command is run with some options
CallLoginCommand ==
  \E a \in LoginArgs, m \in ConfigViews :
    /\ Begin("login", NONE, m, NoKey)
    /\ machine_auth' = NoKey
    /\ username' = NONE
    /\ args' = a
    /\ pc' = "login"

\* lines 35-39
LoginDispatch ==
  /\ pc = "login"
  /\ IF args.setpassword
       THEN /\ pc' = "set_password"
            /\ user' = args.switchuser
            /\ UNCHANGED <<trace, outcome>>
       ELSE IF Truthy(args.switchuser) \/ args.accounts
         THEN /\ Emit(<<"_switch_user">>)
              /\ End("NameError")
              /\ UNCHANGED user
         ELSE /\ pc' = "plain_login"
              /\ UNCHANGED <<user, trace, outcome>>
  /\ UNCHANGED <<flow, args, mem, cfgMachineAuth, disk, walletKey, locals,
                 disk0, wallet0, disk1,
                 mem0, result>>

\* lines 40-42 with lines 47-60
PlainLogin ==
  /\ pc = "plain_login"
  /\ LET pu == IF Truthy(args.username) THEN <<>> ELSE <<"prompt_username">>
         pp == IF Truthy(args.password) THEN <<>> ELSE <<"prompt_password">>
     IN  \/ /\ pu # <<>>
            /\ Emit(pu)
            /\ End("Abort")
         \/ /\ pp # <<>>
            /\ Emit(pu \o pp)
            /\ End("Abort")
         \/ /\ Emit(pu \o pp \o <<"login_with_username_password">>)
            /\ End("return")
  /\ UNCHANGED <<flow, user, args, mem, cfgMachineAuth, disk, walletKey,
                 locals, disk0, wallet0, disk1,
                 mem0, result>>

\* the command is over; the next one starts from the backing store
Exit ==
  /\ pc = "done"
  /\ pc' = "idle"
  /\ flow' = "none"
  /\ user' = NONE
  /\ args' = NoArgs
  /\ mem' = disk
  /\ cfgMachineAuth' = NoKey
  /\ machine_auth' = NoKey
  /\ usernames' = <<>>
  /\ username' = NONE
  /\ b64' = ""
  /\ ip' = 1
  /\ calls' = 0
  /\ inputs' = <<>>
  /\ trace' = <<>>
  /\ outcome' = "none"
  /\ disk0' = disk
  /\ wallet0' = walletKey
  /\ disk1' = disk
  /\ mem0' = disk
  /\ result' = "none"
  /\ UNCHANGED <<disk, walletKey>>

Next ==
  \/ CallLogin
  \/ LoginGreet
  \/ LoginMachineAuth
  \/ LoginAccountInfo
  \/ LoginPrompt
  \/ SaveConfigEnter
  \/ SaveConfigStep
  \/ SaveConfigReturn
  \/ Interrupt
  \/ CallSetPassword
  \/ SetPasswordCheck
  \/ SetPasswordGetPassword
  \/ GetMachineAuth
  \/ SetPasswordUpdate
  \/ CallSaveConfig
  \/ CallSaveConfigAgain
  \/ CallLoginCommand
  \/ LoginDispatch
  \/ PlainLogin
  \/ Exit

Spec == Init /\ [][Next]_vars

(* ------------------------- vocabulary of the claims -------------------- *)
InTrace(e) == \E j \in 1..Len(trace) : trace[j] = e
Count(e) == Cardinality({j \in 1..Len(trace) : trace[j] = e})
Members(names) == {names[j] : j \in 1..Len(names)}
ClientCalls == {"account_info", "update_password"}
ConfigCalls == {"load", "update_key:username", "update_key:mining_auth_pubkey",
                "save"}
NoConfigCall == \A j \in 1..Len(trace) : trace[j] \notin ConfigCalls
Session(d) == <<d.username, d.mining_auth_pubkey>>
\* account_info returned an AccountSet in this command
AccountInfoReturned == InTrace("account_info") /\ ~InTrace("account_info:raised")
\* save_config has been called, or is the next statement
WriterReached == pc = "save_config" \/ InTrace("save_config")
\* base64 of the compressed keys, as base64.b64encode(..).decode() prints it
ExpectedB64(k) ==
  CASE k = KeyA -> "Anm+Zn753LusVaBilc6HCwcCm/zbLc4o2VnygVsW+BeY"
    [] k = KeyB -> "A8YEf5RB7X1tMEVAbpXAfNhcd45LjO88p6usCblccJ7l"
    [] OTHER -> "<no key>"

(* -------------------------------- claims ------------------------------- *)
\* C1: in _login, when the explicit username is an exact member of the
\* non-empty AccountSet, no numeric-selection prompt is issued and
\* save_config is called with exactly that username.
C1_ExplicitMemberSelected ==
  (flow = "_login" /\ AccountInfoReturned /\ user # NONE
     /\ Len(usernames) >= 1 /\ user \in Members(usernames))
  => /\ Count("prompt") = 0
     /\ WriterReached
     /\ username = user
     /\ (pc = "done" /\ outcome = "return" => disk.username = user)

C1_Witness ==
  /\ flow = "_login" /\ pc = "done" /\ outcome = "return"
  /\ Len(usernames) = 2 /\ user = usernames[2]
  /\ Count("prompt") = 0 /\ Count("save_config") = 1
  /\ disk.username = user

\* C2: in _login with a non-empty AccountSet of size n and no explicit
\* username, the username handed to save_config is AccountSet[i-1] for the
\* first input i with 1 <= i <= n; every input before it is out of range and
\* no out-of-range input is accepted; while the prompt is pending no input
\* so far was in range.
C2_FirstInRangeInputSelected ==
  (flow = "_login" /\ AccountInfoReturned /\ user = NONE
     /\ Len(usernames) >= 1)
  => LET n == Len(usernames)
         ok(i) == 1 <= i /\ i <= n
     IN  /\ pc = "login_prompt" => \A j \in 1..Len(inputs) : ~ok(inputs[j])
         /\ WriterReached =>
              /\ Len(inputs) >= 1
              /\ ok(inputs[Len(inputs)])
              /\ \A j \in 1..(Len(inputs) - 1) : ~ok(inputs[j])
              /\ username = usernames[inputs[Len(inputs)]]
         /\ pc = "done" => (WriterReached \/ outcome = "Abort")

C2_Witness ==
  /\ flow = "_login" /\ pc = "done" /\ outcome = "return" /\ user = NONE
  /\ Len(usernames) = 2
  /\ Len(inputs) = 2 /\ inputs[1] = 3 /\ inputs[2] = 2
  /\ username = usernames[2] /\ disk.username = usernames[2]

\* C3: in _login, when account_info returns an empty AccountSet, there is no
\* numeric-selection prompt, create_wallet_and_account is invoked exactly
\* once, and the flow ends without load, update_key or save on its Config.
C3_EmptyAccountSetCreates ==
  (flow = "_login" /\ AccountInfoReturned /\ usernames = <<>>)
  => /\ pc = "done"
     /\ Count("prompt") = 0
     /\ Count("create") = 1
     /\ ~InTrace("save_config")
     /\ NoConfigCall
     /\ mem \in ConfigViews

C3_Witness ==
  /\ flow = "_login" /\ AccountInfoReturned /\ usernames = <<>>
  /\ wallet0 # NoKey /\ cfgMachineAuth = NoKey
  /\ pc = "done" /\ outcome = "return" /\ Count("create") = 1

\* C4: in _login, an explicit username that is not a member of the non-empty
\* AccountSet gets the "does not exist" message and the flow returns without
\* calling save_config: no key is updated, nothing is saved, the backing
\* store is as it was.
C4_ExplicitNonMemberAborts ==
  (flow = "_login" /\ AccountInfoReturned /\ user # NONE
     /\ Len(usernames) >= 1 /\ user \notin Members(usernames))
  => /\ pc = "done"
     /\ outcome = "return"
     /\ Count("msg:does_not_exist") = 1
     /\ ~InTrace("save_config")
     /\ NoConfigCall
     /\ disk = disk0

C4_Witness ==
  /\ flow = "_login" /\ pc = "done" /\ user = "Bob"
  /\ "bob" \in Members(usernames)
  /\ InTrace("msg:does_not_exist") /\ disk = disk0
  /\ disk0.username \in Names

\* C5: save_config is atomic on the backing store: in every reachable state,
\* a process that died before the final save included, the store holds
\* either the session it held when the command started or, once a save has
\* run, the new username together with the base64 of the new public key;
\* never one new field with the other old.
C5_BindSessionAtomic ==
  \/ Session(disk) = Session(disk0)
  \/ /\ InTrace("save")
     /\ Session(disk) = <<username, ExpectedB64(machine_auth)>>

C5_Witness ==
  /\ pc = "done" /\ outcome = "interrupted"
  /\ mem.username = username /\ mem.mining_auth_pubkey = ExpectedB64(machine_auth)
  /\ disk0.username \in Names
  /\ Session(mem) # Session(disk0)
  /\ Session(disk) = Session(disk0)

\* C6: a _login run that ends before save_config is reached (account_info
\* raised a provider error, explicit username not found, empty AccountSet,
\* wallet file absent, selection prompt cancelled) leaves the persisted
\* username and mining_auth_pubkey as they were when the command started.
EndedBeforeWriter ==
  \/ InTrace("account_info:raised")
  \/ /\ AccountInfoReturned
     /\ user # NONE /\ Len(usernames) >= 1 /\ user \notin Members(usernames)
  \/ AccountInfoReturned /\ usernames = <<>>
  \/ InTrace("check_wallet_file:absent")
  \/ outcome = "Abort"

C6_EarlyEndKeepsSession ==
  (flow = "_login" /\ pc = "done" /\ EndedBeforeWriter)
  => Session(disk) = Session(disk0)

C6_Witness ==
  /\ flow = "_login" /\ pc = "done" /\ outcome = "Abort"
  /\ Len(inputs) = 1
  /\ disk0.username \in Names /\ disk0.mining_auth_pubkey = ExpectedB64(KeyB)
  /\ Session(disk) = Session(disk0)

\* C7: save_config is idempotent: when it has been called again with the
\* same machine_auth and username on the same Config object, the backing
\* store is what it was when the first call returned.
C7_BindSessionIdempotent ==
  (flow = "save_config" /\ pc = "done" /\ outcome = "return" /\ calls >= 2)
  => disk = disk1

C7_Witness ==
  /\ flow = "save_config" /\ pc = "done" /\ outcome = "return" /\ calls = 2
  /\ disk = disk1
  /\ Session(disk) # Session(disk0)
  /\ disk0.username \in Names

\* C8: in the flows that resolve the machine identity, when the Config has
\* no machine_auth and the wallet file is absent, create_wallet_and_account
\* is invoked by the resolution and no Account Client call (account_info,
\* update_password) is made before that invocation.
PastResolution ==
  {"login_account_info", "login_prompt", "save_config", "save_config_ops",
   "set_password_update"}

C8_CreateBeforeClientCall ==
  (flow \in {"_login", "_set_password", "login"}
     /\ cfgMachineAuth = NoKey /\ wallet0 = NoKey)
  => /\ \A j \in 1..Len(trace) :
          trace[j] \in ClientCalls => \E i \in 1..(j - 1) : trace[i] = "create"
     /\ pc \in PastResolution => InTrace("create")

C8_Witness ==
  /\ flow = "_login" /\ pc = "done"
  /\ cfgMachineAuth = NoKey /\ wallet0 = NoKey
  /\ trace = <<"check_wallet_file:absent", "create">>

\* C9: once create_wallet_and_account has been triggered because the wallet
\* file is absent, the same invocation makes no Account Client call
\* afterwards and binds no session, in _login and in _set_password.
C9_ShortCircuitAfterCreate ==
  \A i \in 1..Len(trace) :
    trace[i] = "check_wallet_file:absent"
      => \A j \in (i + 1)..Len(trace) :
           trace[j] \notin ClientCalls \cup {"save_config"}

\* C10: set-password on a Config without `username` emits "no account found"
\* and returns having done nothing else: no password prompt, no machine
\* identity resolution, no update_password, no account creation.
C10_SetPasswordNoUsername ==
  ((flow = "_set_password" \/ (flow = "login" /\ args.setpassword))
     /\ mem.username = ABSENT)
  => /\ pc \in {"login", "set_password", "done"}
     /\ pc = "done" => (outcome = "return" /\ trace = <<"msg:no_account_found">>)
     /\ pc # "done" => trace = <<>>

C10_Witness ==
  /\ flow = "_set_password" /\ pc = "done" /\ outcome = "return"
  /\ mem.username = ABSENT
  /\ trace = <<"msg:no_account_found">>

\* the password update flow, called directly or through the login command
InSetPassword ==
  flow = "_set_password" \/ (flow = "login" /\ args.setpassword)
LastEvent == IF Len(trace) = 0 THEN "none" ELSE trace[Len(trace)]

\* C11: in the set-password flow, a cancellation (Abort) of the password
\* prompt makes the flow return normally, without update_password and with
\* the Config and its backing store untouched; and no path of the flow does
\* load, update_key or save on the Config.
C11_SetPasswordAbortSilent ==
  InSetPassword
  => /\ NoConfigCall
     /\ mem = mem0
     /\ (pc = "done" /\ LastEvent = "get_password")
          => /\ outcome = "return"
             /\ ~InTrace("update_password")
             /\ disk = disk0

C11_Witness ==
  /\ flow = "_set_password" /\ pc = "done" /\ outcome = "return"
  /\ trace = <<"get_password">>
  /\ mem.username \in Names /\ disk = disk0

\* C12 as claimed: with no explicit username and an AccountSet of exactly
\* one username, _login selects it and binds the session without a
\* numeric-selection prompt.
C12_SingleCandidateAutoSelected ==
  (flow = "_login" /\ AccountInfoReturned /\ user = NONE
     /\ Len(usernames) = 1)
  => /\ Count("prompt") = 0
     /\ WriterReached
     /\ username = usernames[1]

\* C12 amended: with no explicit username and an AccountSet of exactly one
\* username, _login does not select automatically: save_config is reached
\* only after at least one numeric-selection prompt, its last input being 1,
\* and then with that single username; until then the prompt is pending or
\* was cancelled.
C12_SingleCandidateStillPrompts ==
  (flow = "_login" /\ AccountInfoReturned /\ user = NONE
     /\ Len(usernames) = 1)
  => /\ WriterReached
          => /\ Count("prompt") >= 1
             /\ Len(inputs) >= 1 /\ inputs[Len(inputs)] = 1
             /\ username = usernames[1]
     /\ ~WriterReached
          => (pc = "login_prompt" \/ (pc = "done" /\ outcome = "Abort"))

C12_Witness ==
  /\ flow = "_login" /\ pc = "done" /\ outcome = "return" /\ user = NONE
  /\ Len(usernames) = 1 /\ inputs = <<1>> /\ Count("prompt") = 1
  /\ disk.username = usernames[1]

\* C13: when account_info raises DataProviderUnavailableError or
\* DataProviderError, _login ends with that very error: account_info was
\* called once, there is no selection prompt, no account creation, no Config
\* call, and the backing store is as it was.
C13_ProviderErrorPropagates ==
  (flow = "_login" /\ InTrace("account_info:raised"))
  => /\ pc = "done"
     /\ result \in ProviderErrors
     /\ outcome = result
     /\ Count("account_info") = 1
     /\ Count("prompt") = 0
     /\ ~InTrace("create")
     /\ NoConfigCall
     /\ disk = disk0

C13_Witness ==
  /\ flow = "_login" /\ pc = "done" /\ outcome = "DataProviderError"
  /\ result = "DataProviderError"
  /\ Count("account_info") = 1 /\ disk0.username \in Names

\* C14: create_wallet_and_account turns the outcome of the external routine
\* into: a normal return on success, TwoOneError with the connection message
\* for DataProviderUnavailableError, TwoOneError with the server-error
\* message for DataProviderError, process exit with status 1 for
\* UnloggedException; the command ends with that outcome (or, on success,
\* goes on as its caller does).
C14_CreateOutcomeMapping ==
  LastEvent = "create"
  => /\ result \in CreateOutcomes
     /\ result = "ok"
          => \/ pc = "done" /\ outcome = "return"
             \/ InSetPassword /\ pc = "set_password_update"
     /\ result = "DataProviderUnavailableError"
          => (pc = "done" /\ outcome = "TwoOneError:connection_cli")
     /\ result = "DataProviderError"
          => (pc = "done" /\ outcome = "TwoOneError:server_err")
     /\ result = "UnloggedException" => (pc = "done" /\ outcome = "exit:1")

C14_Witness ==
  /\ flow = "_login" /\ pc = "done" /\ LastEvent = "create"
  /\ result = "DataProviderError" /\ outcome = "TwoOneError:server_err"

\* C15: a cancellation (Abort) of an interactive prompt of the flows, the
\* numeric selection prompt of _login included, is a silent no-op: the
\* command returns normally and no Config call was made.
PromptCancelled ==
  \/ flow = "_login" /\ Count("prompt") > Len(inputs)
  \/ InSetPassword /\ LastEvent = "get_password"

C15_AbortIsSilentNoOp ==
  (pc = "done" /\ PromptCancelled)
  => (outcome = "return" /\ NoConfigCall)

\* C16: the modes of the login command are exclusive and each invocation
\* runs one flow: with setpassword only the password update flow; otherwise,
\* with switchuser or accounts, the identity resolution flow (_login) with
\* the switchuser value as explicit username, up to account_info (or to the
\* account creation of an absent wallet); otherwise only the plain login.
Events == {trace[j] : j \in 1..Len(trace)}
SetPasswordEvents ==
  {"msg:no_account_found", "get_password", "check_wallet_file:absent",
   "check_wallet_file:present", "create", "update_password"}
LoginFlowEvents ==
  {"msg:currently_logged_in", "check_wallet_file:absent",
   "check_wallet_file:present", "create", "account_info",
   "account_info:raised", "msg:usernames_title", "msg:list", "prompt",
   "msg:invalid_user", "msg:does_not_exist", "save_config", "msg:logging_in"}
     \cup ConfigCalls
PlainLoginEvents ==
  {"prompt_username", "prompt_password", "login_with_username_password"}

C16_ModesRouteToOneFlow ==
  (flow = "login" /\ pc = "done")
  => IF args.setpassword
       THEN Events \subseteq SetPasswordEvents
       ELSE IF Truthy(args.switchuser) \/ args.accounts
         THEN /\ Events \subseteq LoginFlowEvents
              /\ user = args.switchuser
              /\ outcome # "NameError"
              /\ (InTrace("account_info")
                    \/ InTrace("check_wallet_file:absent")
                    \/ outcome = "AttributeError")
         ELSE Events \subseteq PlainLoginEvents

\* C17: save_config makes exactly the Config calls load, update_key of
\* username, update_key of mining_auth_pubkey, save, in this order, once per
\* call; when it has returned the backing store is the store as loaded with
\* only username and mining_auth_pubkey replaced: the other persisted key
\* keeps its stored value, whatever the Config object held in memory.
ConfigTrace == SelectSeq(trace, LAMBDA e : e \in ConfigCalls)
BindSequence ==
  <<"load", "update_key:username", "update_key:mining_auth_pubkey", "save">>

C17_BindSessionFrame ==
  (InTrace("save_config") /\ pc = "done" /\ outcome = "return")
  => /\ Len(ConfigTrace) = 4 * calls
     /\ \A j \in 1..Len(ConfigTrace) :
          ConfigTrace[j] = BindSequence[((j - 1) % 4) + 1]
     /\ disk = [disk0 EXCEPT !.username = username,
                             !.mining_auth_pubkey = ExpectedB64(machine_auth)]
     /\ disk.other = disk0.other

C17_Witness ==
  /\ flow = "_login" /\ pc = "done" /\ outcome = "return"
  /\ mem0.other # disk0.other
  /\ disk.other = disk0.other
  /\ Session(disk) # Session(disk0)
  /\ ConfigTrace = BindSequence

\* C18: in the selection loop every input outside [1, n] gets exactly one
\* rejection message, right after its prompt, and then a new prompt; an
\* in-range input gets none: the rejection messages are as many as the
\* out-of-range inputs before the first in-range input, and the prompts are
\* one more (the in-range one, the pending one or the cancelled one).
OutOfRangeInputs ==
  {j \in 1..Len(inputs) : inputs[j] < 1 \/ inputs[j] > Len(usernames)}

C18_RejectionsMatchInputs ==
  (flow = "_login" /\ AccountInfoReturned /\ user = NONE
     /\ Len(usernames) >= 1)
  => /\ Count("msg:invalid_user") = Cardinality(OutOfRangeInputs)
     /\ \A j \in 1..Len(trace) :
          trace[j] = "msg:invalid_user"
            => /\ trace[j - 1] = "prompt"
               /\ j < Len(trace) => trace[j + 1] = "prompt"
     /\ WriterReached
          => /\ Count("prompt") = Count("msg:invalid_user") + 1
             /\ OutOfRangeInputs = 1..(Len(inputs) - 1)
     /\ pc = "login_prompt"
          => /\ Count("prompt") = Count("msg:invalid_user")
             /\ OutOfRangeInputs = 1..Len(inputs)

C18_Witness ==
  /\ flow = "_login" /\ pc = "done" /\ outcome = "return" /\ user = NONE
  /\ Len(usernames) = 2 /\ inputs = <<0, 1>>
  /\ Count("msg:invalid_user") = 1 /\ Count("prompt") = 2
  /\ username = usernames[1]

\* a running command goes on with its next statement: the statements of
\* save_config need no input
FairSpec ==
  /\ Spec
  /\ WF_vars(SaveConfigEnter)
  /\ WF_vars(SaveConfigStep)
  /\ WF_vars(SaveConfigReturn)

\* C19: with a non-empty AccountSet and no explicit username, once an
\* in-range index has been entered the selection loop is over (that input
\* is the last one, no prompt is pending) and _login eventually ends having
\* called save_config exactly once.
InRangeEntered ==
  /\ flow = "_login" /\ user = NONE /\ Len(usernames) >= 1
  /\ \E j \in 1..Len(inputs) : 1 <= inputs[j] /\ inputs[j] <= Len(usernames)

C19_SelectionTerminates ==
  /\ [](InRangeEntered
          => /\ pc # "login_prompt"
             /\ 1 <= inputs[Len(inputs)] /\ inputs[Len(inputs)] <= Len(usernames)
             /\ Count("save_config") <= 1)
  /\ (InRangeEntered ~> (pc = "done" /\ Count("save_config") = 1))

C19_Witness ==
  /\ InRangeEntered /\ pc = "done" /\ outcome = "return"
  /\ Len(inputs) = 2 /\ Count("save_config") = 1 /\ Count("save") = 1

\* C20: whenever _login calls save_config, account_info was called exactly
\* once in this invocation, the username passed is a member of the
\* AccountSet it returned, and the key passed is the machine identity the
\* client was built with (config.machine_auth, else the wallet's key); after
\* a successful login the backing store holds exactly that username and the
\* base64 of that key, whatever session it held before.
C20_BoundSessionFromAccountSet ==
  (flow = "_login" /\ WriterReached)
  => LET identity == IF cfgMachineAuth # NoKey THEN cfgMachineAuth ELSE wallet0
     IN  /\ Count("account_info") = 1
         /\ result = "ok"
         /\ username \in Members(usernames)
         /\ machine_auth = identity
         /\ identity \in Keys
         /\ pc = "save_config_ops" => b64 = ExpectedB64(identity)
         /\ (pc = "done" /\ outcome = "return")
              => Session(disk) = <<username, ExpectedB64(identity)>>

C20_Witness ==
  /\ flow = "_login" /\ pc = "done" /\ outcome = "return"
  /\ cfgMachineAuth = KeyB /\ wallet0 = KeyA
  /\ disk0.username \in Names /\ disk0.mining_auth_pubkey = ExpectedB64(KeyA)
  /\ Session(disk) = <<username, ExpectedB64(KeyB)>>
  /\ username # disk0.username

TypeOK ==
  /\ pc \in {"idle", "done", "login_greet", "login_machine_auth",
             "login_account_info", "login_prompt", "save_config",
             "save_config_ops", "set_password", "set_password_get_password",
             "get_machine_auth", "set_password_update", "login",
             "plain_login"}
  /\ machine_auth \in Keys \cup {NoKey}
  /\ username \in Names \cup {NONE}
====
